---- MODULE Spec2Model ----
(***************************************************************************)
(* Model of src/scraper.py: the aggregation pipeline run_scraper with its  *)
(* source adapters, the description normalizer clean_description, the      *)
(* url deduplication pass and the catalog write.                           *)
(*                                                                         *)
(* Python strings are TLA+ strings (Len, SubSeq and \o act on them).       *)
(* The run iterates two adjacent categories of CATEGORIES ("Web            *)
(* Development", "UX Design") and three of the twelve FETCHERS, in source  *)
(* order: fetch_youtube (live query + curated table), fetch_mit_ocw (a     *)
(* curated table; the nine other static adapters have the same code shape) *)
(* and fetch_microsoft_learn (live query only).  The curated rows are the  *)
(* rows of the source tables for these categories.                         *)
(***************************************************************************)
EXTENDS Integers, Sequences, FiniteSets, TLC

VARIABLES
    pc,             \* position of the process inside run_scraper
    ci,             \* index into CATEGORIES of the running outer loop
    fi,             \* index into FETCHERS of the running inner loop
    all_resources,  \* run_scraper's accumulator
    unique,         \* run_scraper's deduplicated list
    output,         \* run_scraper's output dict (None before it is built)
    file,           \* content of CONFIG["output_file"] on disk
    prior,          \* history: content of the file when the run started
    today,          \* the calendar day datetime.today() returns
    service,        \* behaviour of the text-generation service in this run
    svc_calls,      \* number of messages.create calls made so far
    calls,          \* history: one entry per finished adapter invocation
    probe,          \* inputs and results of a function applied on its own
    CONFIG,         \* the two API keys read from the environment at startup
    schedule_flag,  \* "--schedule" in sys.argv
    proc,           \* position of the process outside run_scraper
    due,            \* the scheduler's monthly job is due
    ticks,          \* history: number of times the monthly job became due
    runs,           \* history: number of times run_scraper was entered
    prev_returned   \* history: what the adapters returned in the previous run

procvars == <<CONFIG, schedule_flag, proc, due, ticks, runs, prev_returned>>

vars == <<pc, ci, fi, all_resources, unique, output, file, prior, today,
          service, svc_calls, calls, probe, CONFIG, schedule_flag, proc, due,
          ticks, runs, prev_returned>>

\* ------------------------------------------------------------------ bounds
\* Days the calendar may advance while one run executes.
MaxDay == 1
\* Longest list of Resources handed to the dedup pass on its own.
MaxListLen == 3
\* Times the monthly job may become due while the scheduler is watched.
MaxTicks == 2
\* The longest list of items in a live response handed to one adapter call.
MaxItems == 2

\* -------------------------------------------------------- program constants
\* clean_description: raw_description[:200]
FallbackChars == 200
\* CONFIG["max_results_per_source"]
max_results_per_source == 30

CATEGORIES == <<"Web Development", "UX Design">>

FETCHERS == <<"fetch_youtube", "fetch_mit_ocw", "fetch_microsoft_learn">>

\* ----------------------------------------------------------- str helpers
Min(a, b) == IF a < b THEN a ELSE b

\* s[:n]
Prefix(s, n) == SubSeq(s, 1, Min(Len(s), n))

\* s[n:]
Suffix(s, n) == SubSeq(s, Min(Len(s), n) + 1, Len(s))

CharAt(s, i) == SubSeq(s, i, i)

IsSpace(c) == c \in {" ", "\t", "\n", "\r"}

RECURSIVE LStrip(_)
LStrip(s) ==
    IF s = "" THEN ""
    ELSE IF IsSpace(CharAt(s, 1)) THEN LStrip(Suffix(s, 1)) ELSE s

RECURSIVE RStrip(_)
RStrip(s) ==
    IF s = "" THEN ""
    ELSE IF IsSpace(CharAt(s, Len(s))) THEN RStrip(Prefix(s, Len(s) - 1)) ELSE s

\* str.strip()
Strip(s) == RStrip(LStrip(s))

UpperLetters == "ABCDEFGHIJKLMNOPQRSTUVWXYZ"
LowerLetters == "abcdefghijklmnopqrstuvwxyz"

LowerChar(c) ==
    IF \E i \in 1..26 : CharAt(UpperLetters, i) = c
    THEN CharAt(LowerLetters, CHOOSE i \in 1..26 : CharAt(UpperLetters, i) = c)
    ELSE c

UpperChar(c) ==
    IF \E i \in 1..26 : CharAt(LowerLetters, i) = c
    THEN CharAt(UpperLetters, CHOOSE i \in 1..26 : CharAt(LowerLetters, i) = c)
    ELSE c

\* str.lower()
RECURSIVE Lower(_)
Lower(s) == IF s = "" THEN "" ELSE LowerChar(CharAt(s, 1)) \o Lower(Suffix(s, 1))

\* str.capitalize()
Capitalize(s) ==
    IF s = "" THEN "" ELSE UpperChar(CharAt(s, 1)) \o Lower(Suffix(s, 1))

\* t in s
Contains(s, t) ==
    \E i \in 1..(Len(s) - Len(t) + 1) : SubSeq(s, i, i + Len(t) - 1) = t

\* s.startswith(t)
StartsWith(s, t) == Len(s) >= Len(t) /\ Prefix(s, Len(t)) = t

RECURSIVE Repeat(_, _)
Repeat(c, n) == IF n = 0 THEN "" ELSE c \o Repeat(c, n - 1)

\* ------------------------------------------------ text-generation service
\* What one client.messages.create call does: it raises (no network, a
\* timeout, an authentication error), it returns a message whose content
\* list is empty (content[0] raises IndexError), or it returns a message
\* with the text `text`.
SvcError     == [kind |-> "error", text |-> ""]
SvcMalformed == [kind |-> "malformed", text |-> ""]
SvcReply(t)  == [kind |-> "reply", text |-> t]

SvcOutcomes ==
    {SvcError, SvcMalformed,
     SvcReply("  Learn to build for the web. Start today.\n"), SvcReply("  \n")}

PLACEHOLDER == "No description available."

\* clean_description with the `except` clause dropping the truncation.
clean_description_notrunc(title, raw_description, category, svc) ==
    IF svc.kind = "reply"
    THEN [value |-> Strip(svc.text), raised |-> FALSE]
    ELSE [value |-> IF raw_description # "" THEN raw_description
                    ELSE PLACEHOLDER,
          raised |-> FALSE]

\* clean_description making the service call a second time after a failure;
\* the second call gets the last behaviour of the service's script.
clean_description_tries_again(title, raw_description, category, svc) ==
    IF svc.kind = "reply"
    THEN [value |-> Strip(svc.text), raised |-> FALSE]
    ELSE IF service[Len(service)].kind = "reply"
    THEN [value |-> Strip(service[Len(service)].text), raised |-> FALSE]
    ELSE [value |-> IF raw_description # ""
                    THEN Prefix(raw_description, FallbackChars)
                    ELSE PLACEHOLDER,
          raised |-> FALSE]

\* clean_description without its try/except: a failed call leaves it.
clean_description_no_except(title, raw_description, category, svc) ==
    IF svc.kind = "reply"
    THEN [value |-> Strip(svc.text), raised |-> FALSE]
    ELSE [value |-> "", raised |-> TRUE]

\* clean_description(title, raw_description, category) when the service call
\* does `svc`: the returned string, and whether an exception leaves the call.
clean_description(title, raw_description, category, svc) ==
    IF svc.kind = "reply"
    THEN [value |-> Strip(svc.text), raised |-> FALSE]
    ELSE [value |-> IF raw_description # ""
                    THEN Prefix(raw_description, FallbackChars)
                    ELSE PLACEHOLDER,
          raised |-> FALSE]

\* build_resource labelling every Resource with the first category.
build_resource_first_category(title, url, description, platform, category, level, free, day) ==
    [title |-> title, url |-> url, description |-> description,
     platform |-> platform, category |-> CATEGORIES[1], level |-> level,
     free |-> free, retrieved |-> day]

\* build_resource; `day` is what datetime.today() returns at the call.
build_resource(title, url, description, platform, category, level, free, day) ==
    [title |-> title, url |-> url, description |-> description,
     platform |-> platform, category |-> category, level |-> level,
     free |-> free, retrieved |-> day]

\* The service's behaviour during one run: the n-th messages.create call of
\* the run does service[((n - 1) % Len(service)) + 1].
ServiceBehaviours ==
    {<<SvcError>>,
     <<SvcReply("  Learn to build for the web. Start today.\n")>>,
     <<SvcReply("  \n")>>,
     <<SvcReply("Design usable interfaces."), SvcError>>,
     <<SvcMalformed, SvcReply("Design usable interfaces.")>>}

\* Without an API key every messages.create call is refused.
SvcAt(n) ==
    IF CONFIG.anthropic_api_key = "" THEN SvcError
    ELSE service[((n - 1) % Len(service)) + 1]

\* ------------------------------------------------------- curated tables
YOUTUBE_CURATED(category) ==
    IF category = "Web Development" THEN
      <<[title |-> "Introduction to Google Cloud Platform [2026]",
         url |-> "https://www.youtube.com/playlist?list=PLEiEAq2VkUULvVL0SoVmiS1kTiC87W_AG",
         description |-> "Beginner-friendly introduction to Google Cloud Platform covering core services, storage, compute, and deployment.",
         level |-> "Beginner"],
        [title |-> "Microsoft Azure Full Course [2026]",
         url |-> "https://www.youtube.com/playlist?list=PLEiEAq2VkUUJ-lLsBkEt1CckzIagYNq9S",
         description |-> "Comprehensive Azure cloud course covering virtual machines, storage, networking, security, and Azure DevOps.",
         level |-> "All Levels"]>>
    ELSE <<>>

MITOCW_CURATED(category) ==
    IF category = "Web Development" THEN
      <<[title |-> "User Interface Design and Implementation",
         url |-> "https://ocw.mit.edu/courses/6-831-user-interface-design-and-implementation-spring-2011/",
         description |-> "MIT course on UI design principles, usability, and front-end implementation for interactive web applications."]>>
    ELSE IF category = "UX Design" THEN
      <<[title |-> "User Interface Design and Implementation",
         url |-> "https://ocw.mit.edu/courses/6-831-user-interface-design-and-implementation-spring-2011/",
         description |-> "MIT course on UI/UX principles, usability evaluation, and hands-on interface implementation."]>>
    ELSE <<>>

MS_RELEVANCE_KEYWORDS(category) ==
    IF category = "Web Development" THEN
      <<"web", "html", "css", "javascript", "frontend", "backend", "asp.net", "node">>
    ELSE IF category = "UX Design" THEN
      <<"UX design", "user experience design", "UI UX design", "wireframing", "usability">>
    ELSE <<>>

\* ------------------------------------------------------ adapter helpers
Urls(rs) == {rs[i].url : i \in 1..Len(rs)}

\* item.get("level", "All Levels")
LevelOf(item) == IF "level" \in DOMAIN item THEN item.level ELSE "All Levels"

\* The loop over a curated table, outside any try block: entries whose url is
\* in skip_urls are passed over; an exception leaving clean_description
\* leaves the adapter.  n counts the service calls made so far.
RECURSIVE CuratedLoop(_, _, _, _, _, _, _, _)
CuratedLoop(entries, skip_urls, acc, n, platform, category, day, with_level) ==
    IF entries = <<>> THEN [results |-> acc, n |-> n, raised |-> FALSE]
    ELSE LET item == Head(entries) IN
      IF item.url \in skip_urls
      THEN CuratedLoop(Tail(entries), skip_urls, acc, n, platform, category,
                       day, with_level)
      ELSE LET clean == clean_description(item.title, item.description,
                                          category, SvcAt(n + 1)) IN
        IF clean.raised THEN [results |-> acc, n |-> n + 1, raised |-> TRUE]
        ELSE CuratedLoop(Tail(entries), skip_urls,
               Append(acc, build_resource(item.title, item.url, clean.value,
                        platform, category,
                        IF with_level THEN LevelOf(item) ELSE "All Levels",
                        TRUE, day)),
               n + 1, platform, category, day, with_level)

\* ------------------------------------------------------------ fetch_youtube
\* One item of the search response.  has_snippet, has_id, has_title say
\* whether item["snippet"], item["id"], snippet["title"] exist (a missing one
\* raises KeyError); playlistId is item["id"].get("playlistId", "").
YtItem(pid, title, description) ==
    [has_snippet |-> TRUE, has_id |-> TRUE, has_title |-> TRUE,
     playlistId |-> pid, title |-> title, description |-> description]

\* The body of the `for item in data.get("items", [])` loop, inside the try:
\* failed says that an exception ended the loop.
RECURSIVE YouTubeLiveLoop(_, _, _, _, _)
YouTubeLiveLoop(items, acc, n, category, day) ==
    IF items = <<>> THEN [results |-> acc, n |-> n, failed |-> FALSE]
    ELSE LET item == Head(items) IN
      IF ~item.has_snippet \/ ~item.has_id
      THEN [results |-> acc, n |-> n, failed |-> TRUE]
      ELSE IF item.playlistId = ""
      THEN YouTubeLiveLoop(Tail(items), acc, n, category, day)
      ELSE IF ~item.has_title
      THEN [results |-> acc, n |-> n, failed |-> TRUE]
      ELSE LET clean == clean_description(item.title, item.description,
                                          category, SvcAt(n + 1)) IN
        IF clean.raised THEN [results |-> acc, n |-> n + 1, failed |-> TRUE]
        ELSE YouTubeLiveLoop(Tail(items),
               Append(acc, build_resource(item.title,
                        "https://www.youtube.com/playlist?list=" \o item.playlistId,
                        clean.value, "YouTube", category, "All Levels", TRUE, day)),
               n + 1, category, day)

\* The try block of fetch_youtube with results bound anew by the handler: a
\* failure leaves no live result behind.
YouTubeLiveDiscarding(resp, n, category, day) ==
    LET live == IF resp.status # "ok"
                THEN [results |-> <<>>, n |-> n, failed |-> TRUE]
                ELSE YouTubeLiveLoop(resp.items, <<>>, n, category, day)
    IN IF live.failed THEN [results |-> <<>>, n |-> live.n, failed |-> TRUE]
       ELSE live

\* The try block of fetch_youtube: resp.status "error" is requests.get,
\* raise_for_status or resp.json() raising.
YouTubeLive(resp, n, category, day) ==
    IF resp.status # "ok" THEN [results |-> <<>>, n |-> n, failed |-> TRUE]
    ELSE YouTubeLiveLoop(resp.items, <<>>, n, category, day)

\* fetch_youtube with the curated playlists appended inside the try block, so
\* that a failed live query returns before they are added.
fetch_youtube_curated_in_try(category, resp, n, day) ==
    LET live == YouTubeLive(resp, n, category, day)
        cur  == CuratedLoop(YOUTUBE_CURATED(category), Urls(live.results),
                            live.results, live.n, "YouTube", category, day, TRUE)
    IN IF live.failed
       THEN [results |-> live.results, n |-> live.n, raised |-> FALSE,
             live_failed |-> TRUE]
       ELSE [results |-> cur.results, n |-> cur.n, raised |-> cur.raised,
             live_failed |-> FALSE]

\* fetch_youtube appending every curated playlist of the category.
fetch_youtube_appends_all(category, resp, n, day) ==
    LET live == YouTubeLive(resp, n, category, day)
        cur  == CuratedLoop(YOUTUBE_CURATED(category), {},
                            live.results, live.n, "YouTube", category, day, TRUE)
    IN [results |-> cur.results, n |-> cur.n, raised |-> cur.raised,
        live_failed |-> live.failed]

\* fetch_youtube(category) when the search request answers resp.
fetch_youtube(category, resp, n, day) ==
    LET live == YouTubeLive(resp, n, category, day)
        cur  == CuratedLoop(YOUTUBE_CURATED(category), Urls(live.results),
                            live.results, live.n, "YouTube", category, day, TRUE)
    IN [results |-> cur.results, n |-> cur.n, raised |-> cur.raised,
        live_failed |-> live.failed]

\* ------------------------------------------------------------ fetch_mit_ocw
fetch_mit_ocw(category, n, day) ==
    LET cur == CuratedLoop(MITOCW_CURATED(category), {}, <<>>, n,
                           "MIT OpenCourseWare", category, day, FALSE)
    IN [results |-> cur.results, n |-> cur.n, raised |-> cur.raised,
        live_failed |-> FALSE]

\* ---------------------------------------------------- fetch_microsoft_learn
\* One entry of the catalog response.  is_dict FALSE is an entry that is no
\* JSON object (item.get raises AttributeError); has_url says whether the
\* "url" key exists; levels is item.get("levels") or the empty list.
MsItem(title, summary, has_url, url, levels) ==
    [is_dict |-> TRUE, title |-> title, summary |-> summary,
     has_url |-> has_url, url |-> url, levels |-> levels]

\* data.get("learningPaths", []) or data.get("modules", []) or data.get("results", [])
MsItems(data) ==
    IF data.learningPaths # <<>> THEN data.learningPaths
    ELSE IF data.modules # <<>> THEN data.modules
    ELSE data.results

\* relevant_terms and not any(t in combined for t in relevant_terms)
MsIrrelevant(item, category) ==
    LET relevant_terms == MS_RELEVANCE_KEYWORDS(category)
        combined == Lower(item.title \o " " \o item.summary)
    IN relevant_terms # <<>>
       /\ ~\E t \in 1..Len(relevant_terms) : Contains(combined, relevant_terms[t])

MsUrl(item) ==
    LET item_url == IF item.has_url THEN item.url ELSE "https://learn.microsoft.com"
    IN IF StartsWith(item_url, "http") THEN item_url
       ELSE "https://learn.microsoft.com" \o item_url

MsLevel(item) ==
    IF item.levels # <<>> THEN Capitalize(item.levels[1]) ELSE "All Levels"

RECURSIVE MicrosoftLoop(_, _, _, _, _)
MicrosoftLoop(items, acc, n, category, day) ==
    IF items = <<>> THEN [results |-> acc, n |-> n, failed |-> FALSE]
    ELSE LET item == Head(items) IN
      IF ~item.is_dict THEN [results |-> acc, n |-> n, failed |-> TRUE]
      ELSE IF MsIrrelevant(item, category)
      THEN MicrosoftLoop(Tail(items), acc, n, category, day)
      ELSE LET clean == clean_description(item.title, item.summary, category,
                                          SvcAt(n + 1))
               acc2  == Append(acc, build_resource(item.title, MsUrl(item),
                          clean.value, "Microsoft Learn", category,
                          MsLevel(item), TRUE, day))
        IN IF clean.raised THEN [results |-> acc, n |-> n + 1, failed |-> TRUE]
           ELSE IF Len(acc2) >= max_results_per_source
           THEN [results |-> acc2, n |-> n + 1, failed |-> FALSE]
           ELSE MicrosoftLoop(Tail(items), acc2, n + 1, category, day)

\* fetch_microsoft_learn without its try/except: the failure of the request
\* or of the loop leaves the adapter.
fetch_microsoft_learn_no_except(category, resp, n, day) ==
    LET live == IF resp.status # "ok"
                THEN [results |-> <<>>, n |-> n, failed |-> TRUE]
                ELSE MicrosoftLoop(Prefix(MsItems(resp), max_results_per_source * 3),
                                   <<>>, n, category, day)
    IN [results |-> live.results, n |-> live.n, raised |-> live.failed,
        live_failed |-> live.failed]

\* fetch_microsoft_learn(category) when the catalog request answers resp.
fetch_microsoft_learn(category, resp, n, day) ==
    LET live == IF resp.status # "ok"
                THEN [results |-> <<>>, n |-> n, failed |-> TRUE]
                ELSE MicrosoftLoop(Prefix(MsItems(resp), max_results_per_source * 3),
                                   <<>>, n, category, day)
    IN [results |-> live.results, n |-> live.n, raised |-> FALSE,
        live_failed |-> live.failed]

\* ------------------------------------------- fetch_aws, fetch_stanford
\* The rows of two of the categories of AWS_CURATED and STANFORD_CURATED.
AWS_CURATED(category) ==
    IF category = "IT / Cybersecurity" THEN
      <<[title |-> "AWS Security Fundamentals",
         url |-> "https://skillbuilder.aws/learn/S2N5PM41ZK/aws-security-fundamentals-second-edition/E71QQGTCRZ",
         description |-> "Core AWS security concepts covering IAM, data encryption, network security, monitoring, and compliance frameworks.",
         level |-> "Intermediate"],
        [title |-> "Introduction to AWS Identity and Access Management (IAM)",
         url |-> "https://skillbuilder.aws/learn/M1QWQ1MURQ/introduction-to-aws-identity-and-access-management-iam/W4W2NQF2AR",
         description |-> "Beginner introduction to AWS IAM for controlling access to services and resources, managing policies, roles, and permissions.",
         level |-> "Beginner"],
        [title |-> "AWS Security - Encryption Fundamentals",
         url |-> "https://skillbuilder.aws/learn/F3VJ5VSAK6/aws-security--encryption-fundamentals/CZREZ5H8QM",
         description |-> "Introduction to encryption concepts and AWS encryption services for protecting data at rest and in transit.",
         level |-> "Beginner"],
        [title |-> "AWS Security Best Practices: Computing",
         url |-> "https://skillbuilder.aws/learn/MSP6X2ZRWV/aws-security-best-practices-computing/NYUMMV4ZCC",
         description |-> "Security best practices for AWS compute services including EC2, Lambda, and containers to protect cloud workloads.",
         level |-> "Intermediate"],
        [title |-> "AWS Security: Securing Generative AI on AWS",
         url |-> "https://skillbuilder.aws/learn/ES7A9MKPBZ/aws-security-securing-generative-ai-on-aws/DTAJFXQSUY",
         description |-> "Security considerations and best practices for building and deploying generative AI applications responsibly on AWS.",
         level |-> "Intermediate"],
        [title |-> "Cybersecurity for Small Business Owners",
         url |-> "https://skillbuilder.aws/learn/WMRGRX7FM1/cybersecurity-for-small-business-owners/AMZFB5K7RX",
         description |-> "Practical cybersecurity fundamentals for small business owners covering threats, protections, and AWS security tools.",
         level |-> "Beginner"]>>
    ELSE IF category = "Project Management / Agile / Career Skills" THEN
      <<[title |-> "Introduction to the AWS Cloud Adoption Framework (CAF)",
         url |-> "https://skillbuilder.aws/learn/QBZU3QPADC/introduction-to-the-aws-cloud-adoption-framework-caf/7GFPVKU3F8",
         description |-> "Strategic framework for planning and executing cloud adoption projects across business, people, governance, and technology.",
         level |-> "Beginner"]>>
    ELSE <<>>

STANFORD_CURATED(category) ==
    IF category = "IT / Cybersecurity" THEN
      <<[title |-> "Introduction to Internet of Things",
         url |-> "https://online.stanford.edu/courses/xee100-introduction-internet-things",
         description |-> "Stanford's beginner-friendly introduction to IoT devices, sensors, connectivity, and embedded systems design. Free.",
         level |-> "Beginner"]>>
    ELSE IF category = "Project Management / Agile / Career Skills" THEN
      <<[title |-> "Generative AI: Technology, Business and Society",
         url |-> "https://online.stanford.edu/courses/xfm100-generative-ai-technology-business-and-society-program-preview",
         description |-> "Stanford's program on managing AI initiatives across technology and business contexts, covering strategy and governance."]>>
    ELSE <<>>

fetch_aws(category, n, day) ==
    LET cur == CuratedLoop(AWS_CURATED(category), {}, <<>>, n,
                           "AWS Skill Builder", category, day, TRUE)
    IN [results |-> cur.results, n |-> cur.n, raised |-> cur.raised,
        live_failed |-> FALSE]

\* item.get("platform_override", "Stanford Online")
PlatformOf(item) ==
    IF "platform_override" \in DOMAIN item THEN item.platform_override
    ELSE "Stanford Online"

\* The loop of fetch_stanford: build_resource is called without a level.
RECURSIVE StanfordLoop(_, _, _, _, _)
StanfordLoop(entries, acc, n, category, day) ==
    IF entries = <<>> THEN [results |-> acc, n |-> n, raised |-> FALSE]
    ELSE LET item  == Head(entries)
             clean == clean_description(item.title, item.description, category,
                                        SvcAt(n + 1))
         IN IF clean.raised THEN [results |-> acc, n |-> n + 1, raised |-> TRUE]
            ELSE StanfordLoop(Tail(entries),
                   Append(acc, build_resource(item.title, item.url, clean.value,
                            PlatformOf(item), category, "All Levels", TRUE, day)),
                   n + 1, category, day)

fetch_stanford(category, n, day) ==
    LET cur == StanfordLoop(STANFORD_CURATED(category), <<>>, n, category, day)
    IN [results |-> cur.results, n |-> cur.n, raised |-> cur.raised,
        live_failed |-> FALSE]

\* ------------------------------------------------------------------ dedup
RECURSIVE DedupLoop(_, _, _)
DedupLoop(rs, seen_urls, acc) ==
    IF rs = <<>> THEN acc
    ELSE LET r == Head(rs) IN
      IF r.url \notin seen_urls
      THEN DedupLoop(Tail(rs), seen_urls \cup {r.url}, Append(acc, r))
      ELSE DedupLoop(Tail(rs), seen_urls, acc)

\* A dedup pass that compares each url with the previous entry's url only.
RECURSIVE DedupAdjacent(_)
DedupAdjacent(rs) ==
    IF Len(rs) <= 1 THEN rs
    ELSE LET rest == DedupAdjacent(Tail(rs)) IN
      IF rs[1].url = rs[2].url THEN <<rs[1]>> \o Tail(rest) ELSE <<rs[1]>> \o rest

\* A dedup pass that lets a later entry replace the kept one of the same url.
RECURSIVE DedupKeepLast(_)
DedupKeepLast(rs) ==
    IF rs = <<>> THEN <<>>
    ELSE LET r == rs[Len(rs)]
             front == DedupKeepLast(SubSeq(rs, 1, Len(rs) - 1))
         IN IF \E i \in 1..Len(front) : front[i].url = r.url
            THEN [i \in 1..Len(front) |->
                    IF front[i].url = r.url THEN r ELSE front[i]]
            ELSE Append(front, r)

\* A dedup pass that removes duplicates from the list it is iterating: the
\* entry after a removed one is never examined.
RECURSIVE DedupRemoveInLoop(_, _, _)
DedupRemoveInLoop(rs, seen_urls, acc) ==
    IF rs = <<>> THEN acc
    ELSE LET r == Head(rs) IN
      IF r.url \notin seen_urls
      THEN DedupRemoveInLoop(Tail(rs), seen_urls \cup {r.url}, Append(acc, r))
      ELSE IF Len(rs) = 1 THEN acc
      ELSE DedupRemoveInLoop(Tail(Tail(rs)), seen_urls, Append(acc, rs[2]))

DedupSkipAfterDrop(rs) == DedupRemoveInLoop(rs, {}, <<>>)

\* A dedup pass that compares urls with letter case ignored.
RECURSIVE DedupLowerLoop(_, _, _)
DedupLowerLoop(rs, seen_urls, acc) ==
    IF rs = <<>> THEN acc
    ELSE LET r == Head(rs) IN
      IF Lower(r.url) \notin seen_urls
      THEN DedupLowerLoop(Tail(rs), seen_urls \cup {Lower(r.url)}, Append(acc, r))
      ELSE DedupLowerLoop(Tail(rs), seen_urls, acc)

DedupIgnoringCase(rs) == DedupLowerLoop(rs, {}, <<>>)

\* A dedup pass that keeps one Resource per url and category.
RECURSIVE DedupPairLoop(_, _, _)
DedupPairLoop(rs, seen, acc) ==
    IF rs = <<>> THEN acc
    ELSE LET r == Head(rs) IN
      IF <<r.url, r.category>> \notin seen
      THEN DedupPairLoop(Tail(rs), seen \cup {<<r.url, r.category>>}, Append(acc, r))
      ELSE DedupPairLoop(Tail(rs), seen, acc)

DedupPerCategory(rs) == DedupPairLoop(rs, {}, <<>>)

\* The "Deduplicate by URL" pass of run_scraper.
Dedup(rs) == DedupLoop(rs, {}, <<>>)

\* -------------------------------------------------- what the sources answer
YtA      == YtItem("PLlive01", "A", "")
YtB      == YtItem("PLlive01", "B", "Second listing of the same playlist.")
YtNoId   == YtItem("", "Channel, not a playlist", "No playlistId in id.")
YtBroken == [has_snippet |-> FALSE, has_id |-> TRUE, has_title |-> FALSE,
             playlistId |-> "", title |-> "", description |-> ""]
YtCur    == YtItem("PLEiEAq2VkUULvVL0SoVmiS1kTiC87W_AG",
                   "Google Cloud Platform (search result)", "Found by the live query.")

YtError     == [status |-> "error", items |-> <<>>]
YtOk(items) == [status |-> "ok", items |-> items]

YouTubeResponses ==
    {YtError, YtOk(<<>>), YtOk(<<YtA, YtB>>), YtOk(<<YtNoId, YtCur, YtBroken, YtA>>)}

MsWeb     == MsItem("Build web apps with ASP.NET Core", "Create a small site.",
                    TRUE, "/training/paths/aspnet-core-web-app/", <<"beginner">>)
MsUx      == MsItem("Design reviews", "Wireframing and usability checks.",
                    TRUE, "https://learn.microsoft.com/training/modules/design-reviews/",
                    <<>>)
\* An entry whose first level is none of beginner, intermediate, advanced.
MsExpert  == MsItem("Node.js internals", "Backend runtime in depth.",
                    TRUE, "/training/modules/nodejs-internals/", <<"expert">>)
\* An entry that names a "UX Design" term in the spelling of the table.
MsUxTitle == MsItem("UX design basics", "Plan screens and flows.",
                    TRUE, "/training/modules/ux-design-basics/", <<"beginner">>)
MsNotDict == [is_dict |-> FALSE, title |-> "", summary |-> "", has_url |-> FALSE,
              url |-> "", levels |-> <<>>]

MsError == [status |-> "error", learningPaths |-> <<>>, modules |-> <<>>,
            results |-> <<>>]
MsOk(learningPaths, modules, results) ==
    [status |-> "ok", learningPaths |-> learningPaths, modules |-> modules,
     results |-> results]

MicrosoftResponses ==
    {MsError, MsOk(<<MsWeb, MsUx, MsExpert>>, <<MsNotDict>>, <<>>),
     MsOk(<<>>, <<MsUx, MsNotDict, MsWeb>>, <<>>)}

\* -------------------------------------------------------- the output file
NoFile == [kind |-> "absent", catalog |-> <<>>]

\* open(..., "w") has truncated the file and nothing is written yet.
EmptyFile == [kind |-> "empty", catalog |-> <<>>]

\* json.dump stopped part-way: a prefix of the JSON text.
PartialFile == [kind |-> "partial", catalog |-> <<>>]

CatalogFile(catalog) == [kind |-> "catalog", catalog |-> <<catalog>>]

\* A catalog written by an earlier run.
PriorCatalog ==
    [generated |-> -30, total |-> 1, categories |-> CATEGORIES,
     resources |->
       <<build_resource("Responsive Web Design",
                        "https://www.freecodecamp.org/learn/responsive-web-design-v9/",
                        "Learn HTML and CSS by building projects.",
                        "freeCodeCamp", "Web Development", "All Levels", TRUE, -30)>>]

NoProbe == [fn |-> "none"]

\* CONFIG["youtube_api_key"], CONFIG["anthropic_api_key"]: os.getenv(..., "").
Configs ==
    [youtube_api_key : {"", "yt-key"}, anthropic_api_key : {"", "sk-key"}]

\* Without an API key the search request is answered with an HTTP error.
YouTubeAnswers ==
    IF CONFIG.youtube_api_key = "" THEN {YtError} ELSE YouTubeResponses

RECURSIVE Flatten(_)
Flatten(cs) == IF cs = <<>> THEN <<>> ELSE Head(cs).results \o Flatten(Tail(cs))

\* The interpreter has reached `if __name__ == "__main__":`.
AtEntryPoint ==
    /\ proc = "main"
    /\ due = FALSE
    /\ ticks = 0
    /\ runs = 0
    /\ prev_returned = <<>>

\* ------------------------------------------------------------ run_scraper
Init ==
    /\ pc = "Idle"
    /\ ci = 1
    /\ fi = 1
    /\ all_resources = <<>>
    /\ unique = <<>>
    /\ output = <<>>
    /\ file \in {NoFile, CatalogFile(PriorCatalog)}
    /\ prior = file
    /\ today = 0
    /\ CONFIG \in Configs
    /\ service \in (IF CONFIG.anthropic_api_key = "" THEN {<<SvcError>>}
                    ELSE ServiceBehaviours)
    /\ svc_calls = 0
    /\ calls = <<>>
    /\ probe = NoProbe
    /\ schedule_flag = FALSE
    /\ AtEntryPoint

\* if "--schedule" in sys.argv: run_scraper() ... else: run_scraper()
EntryPoint ==
    /\ proc = "main"
    /\ proc' = "immediate"
    /\ UNCHANGED <<pc, ci, fi, all_resources, unique, output, file, prior,
                   today, service, svc_calls, calls, probe, CONFIG,
                   schedule_flag, due, ticks, runs, prev_returned>>

\* run_scraper entered with the accumulator of the previous run still in
\* place (a module-level list).
StartRunKeepsAccumulator ==
    /\ pc = "Idle"
    /\ proc \in {"immediate", "job"}
    /\ pc' = "fetch"
    /\ ci' = 1
    /\ fi' = 1
    /\ all_resources' = all_resources
    /\ unique' = <<>>
    /\ output' = <<>>
    /\ prior' = file
    /\ svc_calls' = 0
    /\ prev_returned' = Flatten(calls)
    /\ calls' = <<>>
    /\ runs' = runs + 1
    /\ UNCHANGED <<file, today, service, probe, CONFIG, schedule_flag, proc,
                   due, ticks>>

\* run_scraper is entered: all_resources = []; unique and output do not
\* exist yet.
StartRun ==
    /\ pc = "Idle"
    /\ proc \in {"immediate", "job"}
    /\ pc' = "fetch"
    /\ ci' = 1
    /\ fi' = 1
    /\ all_resources' = <<>>
    /\ unique' = <<>>
    /\ output' = <<>>
    /\ prior' = file
    /\ svc_calls' = 0
    /\ prev_returned' = Flatten(calls)
    /\ calls' = <<>>
    /\ runs' = runs + 1
    /\ UNCHANGED <<file, today, service, probe, CONFIG, schedule_flag, proc,
                   due, ticks>>

\* all_resources.extend(resources) putting the new list in front.
AccumulateInFront(acc, resources) == resources \o acc

\* all_resources.extend(resources)
Accumulate(acc, resources) == acc \o resources

\* resources = fetcher(category); all_resources.extend(resources).  An
\* exception leaving the fetcher leaves run_scraper.
\* The loop body with the sleep under `if resources:`, so that an empty
\* list is followed at once by the next invocation.
ExtendSleepsIfResources(fetcher, r) ==
    /\ svc_calls' = r.n
    /\ calls' = Append(calls, [fetcher |-> fetcher, category |-> CATEGORIES[ci],
                              results |-> r.results,
                              live_failed |-> r.live_failed,
                              raised |-> r.raised])
    /\ all_resources' = Accumulate(all_resources, r.results)
    /\ IF r.raised THEN pc' = "Failed" /\ UNCHANGED <<ci, fi>>
       ELSE IF r.results # <<>> THEN pc' = "sleep" /\ UNCHANGED <<ci, fi>>
       ELSE IF fi < Len(FETCHERS) THEN pc' = "fetch" /\ fi' = fi + 1 /\ ci' = ci
       ELSE IF ci < Len(CATEGORIES) THEN pc' = "fetch" /\ fi' = 1 /\ ci' = ci + 1
       ELSE pc' = "dedup" /\ UNCHANGED <<ci, fi>>
    /\ UNCHANGED <<unique, output, file, prior, today, service, probe>>
    /\ UNCHANGED procvars

Extend(fetcher, r) ==
    /\ svc_calls' = r.n
    /\ calls' = Append(calls, [fetcher |-> fetcher, category |-> CATEGORIES[ci],
                              results |-> r.results,
                              live_failed |-> r.live_failed,
                              raised |-> r.raised])
    /\ IF r.raised
       THEN /\ pc' = "Failed"
            /\ UNCHANGED all_resources
       ELSE /\ pc' = "sleep"
            /\ all_resources' = Accumulate(all_resources, r.results)
    /\ UNCHANGED <<ci, fi, unique, output, file, prior, today, service, probe>>
    /\ UNCHANGED procvars

CallYouTube ==
    /\ pc = "fetch"
    /\ FETCHERS[fi] = "fetch_youtube"
    /\ \E resp \in YouTubeAnswers :
         Extend("fetch_youtube", fetch_youtube(CATEGORIES[ci], resp, svc_calls, today))

CallMitOcw ==
    /\ pc = "fetch"
    /\ FETCHERS[fi] = "fetch_mit_ocw"
    /\ Extend("fetch_mit_ocw", fetch_mit_ocw(CATEGORIES[ci], svc_calls, today))

CallMicrosoftLearn ==
    /\ pc = "fetch"
    /\ FETCHERS[fi] = "fetch_microsoft_learn"
    /\ \E resp \in MicrosoftResponses :
         Extend("fetch_microsoft_learn",
                fetch_microsoft_learn(CATEGORIES[ci], resp, svc_calls, today))

\* The two for loops nested the other way round: for each fetcher, every
\* category.
SleepAdapterMajor ==
    /\ pc = "sleep"
    /\ IF ci < Len(CATEGORIES)
       THEN /\ ci' = ci + 1
            /\ UNCHANGED fi
            /\ pc' = "fetch"
       ELSE IF fi < Len(FETCHERS)
       THEN /\ ci' = 1
            /\ fi' = fi + 1
            /\ pc' = "fetch"
       ELSE /\ UNCHANGED <<ci, fi>>
            /\ pc' = "dedup"
    /\ UNCHANGED <<all_resources, unique, output, file, prior, today, service,
                   svc_calls, calls, probe>>
    /\ UNCHANGED procvars

\* time.sleep(1), then the next fetcher, the next category, or the dedup pass.
Sleep ==
    /\ pc = "sleep"
    /\ IF fi < Len(FETCHERS)
       THEN /\ fi' = fi + 1
            /\ UNCHANGED ci
            /\ pc' = "fetch"
       ELSE IF ci < Len(CATEGORIES)
       THEN /\ fi' = 1
            /\ ci' = ci + 1
            /\ pc' = "fetch"
       ELSE /\ UNCHANGED <<ci, fi>>
            /\ pc' = "dedup"
    /\ UNCHANGED <<all_resources, unique, output, file, prior, today, service,
                   svc_calls, calls, probe>>
    /\ UNCHANGED procvars

\* Midnight passes while the run sleeps between two adapter invocations.
Midnight ==
    /\ pc = "sleep"
    /\ today < MaxDay
    /\ today' = today + 1
    /\ UNCHANGED <<pc, ci, fi, all_resources, unique, output, file, prior,
                   service, svc_calls, calls, probe>>
    /\ UNCHANGED procvars

\* The total of the output dict taken from the accumulator.
TotalOfAccumulator(rs) == Len(all_resources)

\* len(unique) of the output dict.
Total(rs) == Len(rs)

\* The output dict of run_scraper.
Output(rs, day) ==
    [generated |-> day, total |-> Total(rs), categories |-> CATEGORIES,
     resources |-> rs]

\* The dedup pass and the output dict.
DedupPass ==
    /\ pc = "dedup"
    /\ unique' = Dedup(all_resources)
    /\ output' = <<Output(Dedup(all_resources), today)>>
    /\ pc' = "open"
    /\ UNCHANGED <<ci, fi, all_resources, file, prior, today, service,
                   svc_calls, calls, probe>>
    /\ UNCHANGED procvars

\* open(CONFIG["output_file"], "w"): it truncates the file, or raises OSError
\* and leaves it alone.
OpenFile ==
    /\ pc = "open"
    /\ \E ok \in BOOLEAN :
         IF ok THEN file' = EmptyFile /\ pc' = "dump"
         ELSE file' = file /\ pc' = "Failed"
    /\ UNCHANGED <<ci, fi, all_resources, unique, output, prior, today, service,
                   svc_calls, calls, probe>>
    /\ UNCHANGED procvars

\* json.dump whose OSError is swallowed: the run goes on to its last line.
DumpJsonSwallowsError ==
    /\ pc = "dump"
    /\ \E ok \in BOOLEAN :
         IF ok THEN file' = CatalogFile(output[1]) /\ pc' = "Completed"
         ELSE file' = PartialFile /\ pc' = "Completed"
    /\ UNCHANGED <<ci, fi, all_resources, unique, output, prior, today, service,
                   svc_calls, calls, probe>>
    /\ UNCHANGED procvars

\* json.dump(output, f) and the close of the with block: all of the text
\* reaches the file, or a write raises OSError after part of it did.
DumpJson ==
    /\ pc = "dump"
    /\ \E ok \in BOOLEAN :
         IF ok THEN file' = CatalogFile(output[1]) /\ pc' = "Completed"
         ELSE file' = PartialFile /\ pc' = "Failed"
    /\ UNCHANGED <<ci, fi, all_resources, unique, output, prior, today, service,
                   svc_calls, calls, probe>>
    /\ UNCHANGED procvars

\* __main__ calling start_scheduler() whatever sys.argv holds.
ReturnFromRunIgnoresFlag ==
    /\ pc = "Completed"
    /\ proc \in {"immediate", "job"}
    /\ pc' = "Idle"
    /\ IF proc = "job" THEN proc' = "loop" /\ due' = FALSE
       ELSE proc' = "register" /\ due' = due
    /\ UNCHANGED <<ci, fi, all_resources, unique, output, file, prior, today,
                   service, svc_calls, calls, probe, CONFIG, schedule_flag,
                   ticks, runs, prev_returned>>

\* return output: back in __main__, which ends or calls start_scheduler(),
\* or back in schedule.run_pending(), which sets the job's next run one
\* period after now.
ReturnFromRun ==
    /\ pc = "Completed"
    /\ proc \in {"immediate", "job"}
    /\ pc' = "Idle"
    /\ IF proc = "job" THEN proc' = "loop" /\ due' = FALSE
       ELSE IF schedule_flag THEN proc' = "register" /\ due' = due
       ELSE proc' = "exited" /\ due' = due
    /\ UNCHANGED <<ci, fi, all_resources, unique, output, file, prior, today,
                   service, svc_calls, calls, probe, CONFIG, schedule_flag,
                   ticks, runs, prev_returned>>

\* The exception of a failed run leaves run_scraper; neither run_pending,
\* start_scheduler nor __main__ catches it, and the interpreter ends.
Propagate ==
    /\ pc = "Failed"
    /\ proc \in {"immediate", "job"}
    /\ proc' = "crashed"
    /\ UNCHANGED <<pc, ci, fi, all_resources, unique, output, file, prior,
                   today, service, svc_calls, calls, probe, CONFIG,
                   schedule_flag, due, ticks, runs, prev_returned>>

\* The steps of a one-time run: python scraper.py
Next ==
    \/ EntryPoint
    \/ StartRun
    \/ CallYouTube
    \/ CallMitOcw
    \/ CallMicrosoftLearn
    \/ Sleep
    \/ Midnight
    \/ DedupPass
    \/ OpenFile
    \/ DumpJson
    \/ ReturnFromRun
    \/ Propagate

Spec == Init /\ [][Next]_vars

\* The steps of a one-time run that wait for no adapter.
RunStep ==
    \/ EntryPoint
    \/ StartRun
    \/ Sleep
    \/ DedupPass
    \/ OpenFile
    \/ DumpJson
    \/ ReturnFromRun
    \/ Propagate

\* Every adapter invocation returns: its requests have a timeout.
CallsReturn == [](pc = "fetch" => <>(pc # "fetch"))

\* The interpreter does not stop while it has a step to take.
SpecFair == Spec /\ WF_vars(RunStep) /\ CallsReturn

\* ------------------------------------------------------- start_scheduler
\* schedule.every().month.do(run_scraper): the job is registered, or the
\* installed schedule library has no `month` unit and the attribute access
\* raises AttributeError.
Register ==
    /\ proc = "register"
    /\ \E has_month \in BOOLEAN :
         proc' = IF has_month THEN "loop" ELSE "crashed"
    /\ UNCHANGED <<pc, ci, fi, all_resources, unique, output, file, prior,
                   today, service, svc_calls, calls, probe, CONFIG,
                   schedule_flag, due, ticks, runs, prev_returned>>

\* A scheduler that hands a due job to a new thread: a period that ends
\* during a run starts the next run over it.
TriggerStartsOverlappingRun ==
    /\ \/ proc = "loop" /\ ~due
       \/ proc = "job" /\ pc \in {"fetch", "sleep", "dedup", "open", "dump"}
    /\ ticks < MaxTicks
    /\ due' = TRUE
    /\ ticks' = ticks + 1
    /\ IF proc = "job"
       THEN /\ pc' = "fetch"
            /\ ci' = 1
            /\ fi' = 1
            /\ all_resources' = <<>>
            /\ runs' = runs + 1
       ELSE UNCHANGED <<pc, ci, fi, all_resources, runs>>
    /\ UNCHANGED <<unique, output, file, prior,
                   today, service, svc_calls, calls, probe, CONFIG,
                   schedule_flag, proc, prev_returned>>

\* The monthly trigger fires: a period ends while the loop sleeps, or while
\* the job runs inside run_pending(); the job is then still the due one, and
\* its next run is set only when it returns.
Trigger ==
    /\ \/ proc = "loop" /\ ~due
       \/ proc = "job" /\ pc \in {"fetch", "sleep", "dedup", "open", "dump"}
    /\ ticks < MaxTicks
    /\ due' = TRUE
    /\ ticks' = ticks + 1
    /\ UNCHANGED <<pc, ci, fi, all_resources, unique, output, file, prior,
                   today, service, svc_calls, calls, probe, CONFIG,
                   schedule_flag, proc, runs, prev_returned>>

\* while True: schedule.run_pending() finds the job due and calls it.
RunPending ==
    /\ proc = "loop"
    /\ due
    /\ proc' = "job"
    /\ UNCHANGED <<pc, ci, fi, all_resources, unique, output, file, prior,
                   today, service, svc_calls, calls, probe, CONFIG,
                   schedule_flag, due, ticks, runs, prev_returned>>

\* The process started with or without --schedule and without API keys.
InitSched ==
    /\ pc = "Idle"
    /\ ci = 1
    /\ fi = 1
    /\ all_resources = <<>>
    /\ unique = <<>>
    /\ output = <<>>
    /\ file \in {NoFile, CatalogFile(PriorCatalog)}
    /\ prior = file
    /\ today = 0
    /\ CONFIG = [youtube_api_key |-> "", anthropic_api_key |-> ""]
    /\ service = <<SvcError>>
    /\ svc_calls = 0
    /\ calls = <<>>
    /\ probe = NoProbe
    /\ schedule_flag \in BOOLEAN
    /\ AtEntryPoint

\* The steps of python scraper.py with or without --schedule.
NextSched ==
    \/ Next
    \/ Register
    \/ Trigger
    \/ RunPending

SpecSched == InitSched /\ [][NextSched]_vars

\* ------------------------------------------- clean_description on its own
LongRaw == Repeat("0123456789", 20) \o "END"

CleanRaws == {"", " ", "Short raw text.", Repeat("0123456789", 20), LongRaw}

CleanInputs ==
    [title : {"A", "B"}, raw_description : CleanRaws,
     category : {CATEGORIES[i] : i \in 1..Len(CATEGORIES)}, svc : SvcOutcomes]

\* Two calls of clean_description are about to be made.
InitClean ==
    /\ pc = "probe"
    /\ ci = 1
    /\ fi = 1
    /\ all_resources = <<>>
    /\ unique = <<>>
    /\ output = <<>>
    /\ file = NoFile
    /\ prior = NoFile
    /\ today = 0
    /\ service = <<SvcError>>
    /\ svc_calls = 0
    /\ calls = <<>>
    /\ CONFIG = [youtube_api_key |-> "yt-key", anthropic_api_key |-> "sk-key"]
    /\ schedule_flag = FALSE
    /\ proc = "none"
    /\ due = FALSE
    /\ ticks = 0
    /\ runs = 0
    /\ prev_returned = <<>>
    /\ \E a \in CleanInputs, b \in CleanInputs :
         probe = [fn |-> "clean_description", done |-> FALSE, a |-> a, b |-> b,
                  out_a |-> [value |-> "", raised |-> FALSE],
                  out_b |-> [value |-> "", raised |-> FALSE]]

CleanCall ==
    /\ pc = "probe"
    /\ probe.fn = "clean_description"
    /\ ~probe.done
    /\ probe' = [probe EXCEPT
         !.done = TRUE,
         !.out_a = clean_description(probe.a.title, probe.a.raw_description,
                                     probe.a.category, probe.a.svc),
         !.out_b = clean_description(probe.b.title, probe.b.raw_description,
                                     probe.b.category, probe.b.svc)]
    /\ UNCHANGED <<pc, ci, fi, all_resources, unique, output, file, prior,
                   today, service, svc_calls, calls>>
    /\ UNCHANGED procvars

NextClean == CleanCall

SpecClean == InitClean /\ [][NextClean]_vars

\* ------------------------------------------------- the dedup pass on its own
DedupResources ==
    {build_resource(t, u, "Summary.", "Example", CATEGORIES[1], "All Levels", TRUE, 0) :
       t \in {"A", "B"},
       u \in {"https://example.com/c1", "https://example.com/C1",
              "https://example.com/c1/", "https://example.com/c1?ref=home"}}

RECURSIVE ListsUpTo(_, _)
ListsUpTo(S, n) ==
    IF n = 0 THEN {<<>>}
    ELSE LET shorter == ListsUpTo(S, n - 1) IN
      shorter \cup {Append(l, x) : l \in {m \in shorter : Len(m) = n - 1}, x \in S}

\* The fetch loop has ended with some accumulated list.
InitDedup ==
    /\ pc = "dedup"
    /\ ci = Len(CATEGORIES)
    /\ fi = Len(FETCHERS)
    /\ all_resources \in ListsUpTo(DedupResources, MaxListLen)
    /\ unique = <<>>
    /\ output = <<>>
    /\ file = NoFile
    /\ prior = NoFile
    /\ today = 0
    /\ service = <<SvcError>>
    /\ svc_calls = 0
    /\ calls = <<>>
    /\ CONFIG = [youtube_api_key |-> "yt-key", anthropic_api_key |-> "sk-key"]
    /\ schedule_flag = FALSE
    /\ proc = "none"
    /\ due = FALSE
    /\ ticks = 0
    /\ runs = 0
    /\ prev_returned = <<>>
    /\ probe = NoProbe

\* The dedup pass applied to its own output.
DedupAgain ==
    /\ pc = "open"
    /\ probe = NoProbe
    /\ probe' = [fn |-> "dedup", once |-> unique, twice |-> Dedup(unique)]
    /\ pc' = "probe"
    /\ UNCHANGED <<ci, fi, all_resources, unique, output, file, prior, today,
                   service, svc_calls, calls>>
    /\ UNCHANGED procvars

NextDedup ==
    \/ DedupPass
    \/ DedupAgain

SpecDedup == InitDedup /\ [][NextDedup]_vars

\* ------------------------------------------------- one adapter on its own
\* The items a search response of YouTube is made of.
YtItemsPool == {YtA, YtB, YtNoId, YtBroken, YtCur}

\* A search response with as many playlists as maxResults asks for, none of
\* them a curated one.
YtFullPage ==
    [i \in 1..max_results_per_source |->
       YtItem("PLpage" \o Repeat("x", i), "Web tutorial", "")]

\* A page with an item without playlist id, a playlist, a malformed item and
\* a playlist after it.
YtMixedPage == <<YtNoId, YtA, YtBroken, YtCur>>

YouTubeProbeResponses ==
    {YtError, YtOk(YtFullPage), YtOk(YtMixedPage)}
      \cup {YtOk(items) : items \in ListsUpTo(YtItemsPool, MaxItems)}

NoResult == [results |-> <<>>, n |-> 0, raised |-> FALSE, live_failed |-> FALSE]

YouTubeProbes ==
    {[fn |-> "fetch_youtube", done |-> FALSE, category |-> c, resp |-> r,
      out |-> NoResult] :
       c \in {CATEGORIES[i] : i \in 1..Len(CATEGORIES)}, r \in YouTubeProbeResponses}

\* The entries a catalog response of Microsoft Learn is made of.
MsItemsPool == {MsWeb, MsUx, MsExpert, MsUxTitle, MsNotDict}

\* A catalog response with one relevant entry more than the cap.
MsOverfullPage ==
    [i \in 1..(max_results_per_source + 1) |->
       MsItem("Web usability", "", TRUE, "/training/modules/m" \o Repeat("x", i), <<>>)]

MicrosoftProbeResponses ==
    {MsError, MsOk(<<>>, <<MsWeb>>, <<MsUx>>), MsOk(<<>>, <<>>, <<MsUx, MsWeb>>),
     MsOk(<<>>, MsOverfullPage, <<>>), MsOk(<<MsWeb, MsUx, MsNotDict, MsExpert>>, <<>>, <<>>)}
      \cup {MsOk(items, <<>>, <<>>) : items \in ListsUpTo(MsItemsPool, MaxItems)}

MicrosoftProbes ==
    {[fn |-> "fetch_microsoft_learn", done |-> FALSE, category |-> c, resp |-> r,
      out |-> NoResult] :
       c \in {CATEGORIES[i] : i \in 1..Len(CATEGORIES)}, r \in MicrosoftProbeResponses}

CuratedProbes ==
    {[fn |-> f, done |-> FALSE, category |-> c, out |-> NoResult] :
       f \in {"fetch_aws", "fetch_stanford"},
       c \in {"IT / Cybersecurity", "Project Management / Agile / Career Skills",
              "UX Design"}}

FetchProbes == YouTubeProbes \cup MicrosoftProbes \cup CuratedProbes

\* One adapter is about to be called for one category.
InitFetch ==
    /\ pc = "probe"
    /\ ci = 1
    /\ fi = 1
    /\ all_resources = <<>>
    /\ unique = <<>>
    /\ output = <<>>
    /\ file = NoFile
    /\ prior = NoFile
    /\ today = 0
    /\ service \in ServiceBehaviours
    /\ svc_calls = 0
    /\ calls = <<>>
    /\ CONFIG = [youtube_api_key |-> "yt-key", anthropic_api_key |-> "sk-key"]
    /\ schedule_flag = FALSE
    /\ proc = "none"
    /\ due = FALSE
    /\ ticks = 0
    /\ runs = 0
    /\ prev_returned = <<>>
    /\ probe \in FetchProbes

YouTubeCall ==
    /\ pc = "probe"
    /\ probe.fn = "fetch_youtube"
    /\ ~probe.done
    /\ probe' = [probe EXCEPT
         !.done = TRUE,
         !.out = fetch_youtube(probe.category, probe.resp, 0, today)]
    /\ UNCHANGED <<pc, ci, fi, all_resources, unique, output, file, prior,
                   today, service, svc_calls, calls>>
    /\ UNCHANGED procvars

MicrosoftCall ==
    /\ pc = "probe"
    /\ probe.fn = "fetch_microsoft_learn"
    /\ ~probe.done
    /\ probe' = [probe EXCEPT
         !.done = TRUE,
         !.out = fetch_microsoft_learn(probe.category, probe.resp, 0, today)]
    /\ UNCHANGED <<pc, ci, fi, all_resources, unique, output, file, prior,
                   today, service, svc_calls, calls>>
    /\ UNCHANGED procvars

AwsCall ==
    /\ pc = "probe"
    /\ probe.fn = "fetch_aws"
    /\ ~probe.done
    /\ probe' = [probe EXCEPT
         !.done = TRUE, !.out = fetch_aws(probe.category, 0, today)]
    /\ UNCHANGED <<pc, ci, fi, all_resources, unique, output, file, prior,
                   today, service, svc_calls, calls>>
    /\ UNCHANGED procvars

StanfordCall ==
    /\ pc = "probe"
    /\ probe.fn = "fetch_stanford"
    /\ ~probe.done
    /\ probe' = [probe EXCEPT
         !.done = TRUE, !.out = fetch_stanford(probe.category, 0, today)]
    /\ UNCHANGED <<pc, ci, fi, all_resources, unique, output, file, prior,
                   today, service, svc_calls, calls>>
    /\ UNCHANGED procvars

NextFetch ==
    \/ YouTubeCall
    \/ MicrosoftCall
    \/ AwsCall
    \/ StanfordCall

SpecFetch == InitFetch /\ [][NextFetch]_vars

\* ===================================================================
\* Properties
\* ===================================================================
\* The Resources the adapter invocations of the run returned, in the order
\* of the invocations and, within one, in list order.
Returned == Flatten(calls)

\* The catalogs the run produced: the output dict once built, and the file's
\* content once the write succeeded.
ProducedCatalogs ==
    {output[i] : i \in 1..Len(output)}
      \cup (IF pc = "Completed" THEN {file.catalog[1]} ELSE {})

AllCalls == Len(CATEGORIES) * Len(FETCHERS)

LiveUrl == "https://www.youtube.com/playlist?list=PLlive01"

\* C1: in every catalog the run produces, the urls of resources are pairwise
\* distinct, whatever lists the adapter invocations returned.
C1_UrlsPairwiseDistinct ==
    \A c \in ProducedCatalogs :
      \A i, j \in 1..Len(c.resources) :
        i # j => c.resources[i].url # c.resources[j].url

\* A catalog was written after one invocation returned the same url twice
\* and two invocations of different categories returned the same url.
C1_Witness ==
    /\ pc = "Completed"
    /\ \E k \in 1..Len(calls) : \E i, j \in 1..Len(calls[k].results) :
         i < j /\ calls[k].results[i].url = calls[k].results[j].url
    /\ \E k, m \in 1..Len(calls) :
         /\ calls[k].category # calls[m].category
         /\ Urls(calls[k].results) \cap Urls(calls[m].results) # {}

\* C2: first-seen tie-break.  For every url the invocations returned, the
\* catalog holds exactly one Resource with that url, and it is, field for
\* field, the earliest returned one (category order, adapter order, list
\* order).
C2_FirstSeenWins ==
    \A c \in ProducedCatalogs :
      \A i \in 1..Len(Returned) :
        LET u == Returned[i].url
            first == CHOOSE k \in 1..i :
                       /\ Returned[k].url = u
                       /\ \A m \in 1..(k - 1) : Returned[m].url # u
        IN /\ Cardinality({k \in 1..Len(c.resources) : c.resources[k].url = u}) = 1
           /\ \E k \in 1..Len(c.resources) : c.resources[k] = Returned[first]

\* The written catalog holds title "A" for a url that was returned with
\* title "A" first and with title "B" later.
C2_Witness ==
    /\ pc = "Completed"
    /\ \E i, j \in 1..Len(Returned) :
         /\ i < j
         /\ Returned[i].url = LiveUrl /\ Returned[i].title = "A"
         /\ Returned[j].url = LiveUrl /\ Returned[j].title = "B"
    /\ \E k \in 1..Len(file.catalog[1].resources) :
         /\ file.catalog[1].resources[k].url = LiveUrl
         /\ file.catalog[1].resources[k].title = "A"

\* C3: idempotent dedup.  The dedup pass applied to its own output returns
\* that output unchanged, for every input list.
C3_DedupIdempotent ==
    probe.fn = "dedup" => probe.twice = probe.once

\* The pass ran twice on a list from which the first pass dropped an entry
\* and kept at least two.
C3_Witness ==
    /\ probe.fn = "dedup"
    /\ Len(probe.once) < Len(all_resources)
    /\ Len(probe.once) >= 2

\* C4: in every produced catalog, total is the number of entries of
\* resources, the deduplicated list that is written.
C4_TotalIsLength ==
    \A c \in ProducedCatalogs : c.total = Len(c.resources)

\* A catalog was written whose total is smaller than the number of
\* Resources the adapters returned.
C4_Witness ==
    /\ pc = "Completed"
    /\ file.catalog[1].total > 0
    /\ file.catalog[1].total < Len(Returned)

\* C5: every Resource an adapter invocation returns carries the category
\* the invocation was given, and every Resource of a produced catalog was
\* returned by some invocation and has a category of the catalog's
\* categories list.
C5_CategoryOfCall ==
    /\ \A k \in 1..Len(calls) : \A i \in 1..Len(calls[k].results) :
         calls[k].results[i].category = calls[k].category
    /\ \A c \in ProducedCatalogs : \A i \in 1..Len(c.resources) :
         /\ \E m \in 1..Len(c.categories) : c.categories[m] = c.resources[i].category
         /\ \E k \in 1..Len(calls) : \E j \in 1..Len(calls[k].results) :
              /\ calls[k].results[j] = c.resources[i]
              /\ calls[k].category = c.resources[i].category

\* The written catalog holds Resources of both categories.
C5_Witness ==
    /\ pc = "Completed"
    /\ \A m \in 1..Len(CATEGORIES) :
         \E i \in 1..Len(file.catalog[1].resources) :
           file.catalog[1].resources[i].category = CATEGORIES[m]

\* C6: every Resource of a produced catalog has a non-empty description,
\* whatever the text-generation service replied.
C6_DescriptionNeverEmpty ==
    \A c \in ProducedCatalogs : \A i \in 1..Len(c.resources) :
      c.resources[i].description # ""

FirstChars(value, raw, n) ==
    /\ Len(value) = Min(Len(raw), n)
    /\ \A i \in 1..Len(value) : CharAt(value, i) = CharAt(raw, i)

ServiceFailed(svc) == svc.kind # "reply"

\* C7: normalizer fallback.  When the service call fails, clean_description
\* raises nothing and returns a non-empty string: the first 200 characters
\* of raw_description, or the placeholder when raw_description is empty; two
\* failing calls with equal raw_description return the same string whatever
\* their title and category.
C7_FallbackFromRawOnly ==
    (probe.fn = "clean_description" /\ probe.done) =>
      /\ \A x \in {<<probe.a, probe.out_a>>, <<probe.b, probe.out_b>>} :
           ServiceFailed(x[1].svc) =>
             /\ ~x[2].raised
             /\ x[2].value # ""
             /\ IF x[1].raw_description = ""
                THEN x[2].value = "No description available."
                ELSE FirstChars(x[2].value, x[1].raw_description, 200)
      /\ (/\ ServiceFailed(probe.a.svc)
          /\ ServiceFailed(probe.b.svc)
          /\ probe.a.raw_description = probe.b.raw_description)
           => probe.out_a = probe.out_b

\* Two failing calls were made with the same raw_description of more than
\* 200 characters, different titles, categories and kinds of failure.
C7_Witness ==
    /\ probe.fn = "clean_description"
    /\ probe.done
    /\ probe.a.svc = SvcError
    /\ probe.b.svc = SvcMalformed
    /\ probe.a.raw_description = LongRaw
    /\ probe.b.raw_description = LongRaw
    /\ probe.a.title # probe.b.title
    /\ probe.a.category # probe.b.category
    /\ Len(probe.out_a.value) = 200

\* C8: adapter isolation.  A failed live fetch does not end the run: the run
\* fails only after the output dict was built, and a completed run made
\* every adapter invocation and wrote a catalog that holds, by url, the
\* curated playlists of every category whose YouTube live fetch failed and
\* every Resource any invocation returned.
C8_AdapterIsolation ==
    /\ pc = "Failed" => (output # <<>> /\ Len(calls) = AllCalls)
    /\ pc = "Completed" =>
         /\ Len(calls) = AllCalls
         /\ \A k \in 1..Len(calls) :
              /\ (calls[k].live_failed /\ calls[k].fetcher = "fetch_youtube") =>
                   \A e \in 1..Len(YOUTUBE_CURATED(calls[k].category)) :
                     YOUTUBE_CURATED(calls[k].category)[e].url
                       \in Urls(file.catalog[1].resources)
              /\ Urls(calls[k].results) \subseteq Urls(file.catalog[1].resources)

\* A run completed whose YouTube live fetch for "Web Development" failed and
\* whose Microsoft Learn fetch failed too.
C8_Witness ==
    /\ pc = "Completed"
    /\ \E k \in 1..Len(calls) :
         /\ calls[k].fetcher = "fetch_youtube"
         /\ calls[k].category = "Web Development"
         /\ calls[k].live_failed
         /\ Len(calls[k].results) >= 2
    /\ \E k \in 1..Len(calls) :
         calls[k].fetcher = "fetch_microsoft_learn" /\ calls[k].live_failed

\* C9: no adapter raises past its own boundary: every invocation, whatever
\* failed in the request, the response or the normalizer, ends by returning
\* its list and no exception reaches run_scraper.
C9_NoAdapterRaises ==
    /\ \A k \in 1..Len(calls) : ~calls[k].raised
    /\ Len(calls) < AllCalls => pc \in {"Idle", "fetch", "sleep"}

\* With the text-generation service down, the live fetch of YouTube failed
\* for the category without curated playlists and returned the empty list,
\* and the Microsoft Learn loop failed after it had accepted an entry.
C9_Witness ==
    /\ service = <<SvcError>>
    /\ \E k \in 1..Len(calls) :
         /\ calls[k].fetcher = "fetch_youtube"
         /\ calls[k].category = "UX Design"
         /\ calls[k].live_failed
         /\ calls[k].results = <<>>
    /\ \E k \in 1..Len(calls) :
         /\ calls[k].fetcher = "fetch_microsoft_learn"
         /\ calls[k].live_failed
         /\ Len(calls[k].results) = 1

\* C10: a failed catalog write leaves the previous content of the file in
\* place, and the file is never empty or partially written.
C10_PriorCatalogIntact ==
    /\ file.kind \notin {"empty", "partial"}
    /\ pc = "Failed" => file = prior

\* C11: a run goes Idle -> Running -> Completed or Failed. The file is
\* touched only after every adapter invocation and the dedup pass; Completed
\* is entered only from the write, with the whole catalog in the file;
\* Failed is entered only from the open or the write of the file, never from
\* an adapter invocation or the dedup pass, and from Failed the only step is
\* the exception leaving run_scraper: no step writes again.
C11_RunStateMachine ==
    /\ [](/\ pc \in {"Idle", "fetch", "sleep", "dedup", "open", "dump",
                     "Completed", "Failed"}
          /\ file # prior =>
                /\ Len(calls) = AllCalls
                /\ output = <<Output(Dedup(Returned), output[1].generated)>>
          /\ pc = "Completed" => file = CatalogFile(output[1])
          /\ pc = "Failed" =>
                /\ Len(calls) = AllCalls
                /\ \A k \in 1..Len(calls) : ~calls[k].raised
                /\ file.kind # "catalog" \/ file = prior)
    /\ [][/\ pc = "Idle" /\ pc' # "Idle" => pc' = "fetch"
          /\ pc \in {"fetch", "sleep", "dedup"} =>
                pc' \in {"fetch", "sleep", "dedup", "open"} /\ file' = file
          /\ pc = "open" => pc' \in {"open", "dump", "Failed"}
          /\ pc = "dump" => pc' \in {"dump", "Completed", "Failed"}
          /\ pc = "Completed" => pc' \in {"Completed", "Idle"} /\ file' = file
          /\ pc = "Failed" =>
                /\ pc' = "Failed"
                /\ file' = file
                /\ proc' # proc => proc' = "crashed"]_vars

\* The run completed although the live part of two adapter invocations and
\* every call of the text-generation service had failed.
C11_Witness ==
    /\ pc = "Completed"
    /\ file = CatalogFile(output[1])
    /\ service = <<SvcError>>
    /\ \E k \in 1..Len(calls) :
         calls[k].fetcher = "fetch_youtube" /\ calls[k].live_failed
    /\ \E k \in 1..Len(calls) :
         calls[k].fetcher = "fetch_microsoft_learn" /\ calls[k].live_failed

\* C12: in --schedule mode a run that ended in Failed does not end the
\* process: the scheduler stays able to start the next run.
C12_FailedRunKeepsTrigger ==
    schedule_flag /\ pc = "Failed" => proc # "crashed"

\* C13: with --schedule, once the immediate run has returned the process is
\* on its way into the scheduler loop or in it, with the monthly job
\* registered.
C13_SchedulerEntered ==
    schedule_flag /\ runs >= 1 /\ pc = "Idle" =>
      proc \in {"register", "loop", "job"}

\* C14: without --schedule the process ends after finitely many steps, its
\* run having reached Completed or Failed, and no second run is started.
C14_RunsOnceAndTerminates ==
    /\ [](~schedule_flag => runs <= 1)
    /\ [](proc \in {"exited", "crashed"} =>
            runs = 1 /\ Len(calls) = AllCalls /\ pc \in {"Idle", "Failed"})
    /\ <>(pc \in {"Completed", "Failed"})
    /\ <>[](proc \in {"exited", "crashed"})

\* The process ended after its one run had written the catalog.
C14_Witness ==
    /\ ~schedule_flag
    /\ proc = "exited"
    /\ runs = 1
    /\ file = CatalogFile(output[1])

\* C15: any two Resources of one produced catalog carry the same retrieved
\* value, whenever during the run each of them was built.
C15_SameRetrieved ==
    \A c \in ProducedCatalogs :
      \A i, j \in 1..Len(c.resources) :
        c.resources[i].retrieved = c.resources[j].retrieved

\* What the invocation of FETCHERS[f] for CATEGORIES[c] returned.
ResultsOf(c, f) ==
    LET k == CHOOSE k \in 1..Len(calls) :
               calls[k].category = CATEGORIES[c] /\ calls[k].fetcher = FETCHERS[f]
    IN  calls[k].results

\* The adapter results category by category, adapter by adapter.
RECURSIVE CategoryMajor(_)
CategoryMajor(n) ==
    IF n = 0 THEN <<>>
    ELSE CategoryMajor(n - 1)
           \o ResultsOf(((n - 1) \div Len(FETCHERS)) + 1,
                        ((n - 1) % Len(FETCHERS)) + 1)

\* rs without every non-first occurrence of a url, the rest in place.
FirstOccurrences(rs) ==
    LET kept == {i \in 1..Len(rs) : \A j \in 1..(i - 1) : rs[j].url # rs[i].url}
    IN  [k \in 1..Cardinality(kept) |->
           rs[CHOOSE i \in kept : Cardinality({j \in kept : j < i}) = k - 1]]

\* C16: the resources of a produced catalog are the adapter results
\* concatenated in category order, within a category in FETCHERS order,
\* within an adapter in list order, less every non-first occurrence of a
\* url, in that same order.
C16_CatalogOrder ==
    \A c \in ProducedCatalogs :
      c.resources = FirstOccurrences(CategoryMajor(AllCalls))

\* A catalog was written in which a dropped duplicate lay between two kept
\* Resources, and Resources of both categories and of all three adapters
\* are kept.
C16_Witness ==
    /\ pc = "Completed"
    /\ \E i, j, k \in 1..Len(Returned) :
         /\ i < j /\ j < k
         /\ Returned[i].url = Returned[j].url
         /\ Returned[k].url \notin {Returned[m].url : m \in 1..(k - 1)}
    /\ {r.category : r \in {file.catalog[1].resources[k] :
           k \in 1..Len(file.catalog[1].resources)}} = {"Web Development", "UX Design"}
    /\ {r.platform : r \in {file.catalog[1].resources[k] :
           k \in 1..Len(file.catalog[1].resources)}}
         = {"YouTube", "MIT OpenCourseWare", "Microsoft Learn"}

\* C17: no cross-run state.  In every run, the first one or a later one,
\* the accumulator holds what this run's invocations returned and nothing
\* else; a produced catalog holds only Resources this run's invocations
\* returned; after a successful write the file holds the new catalog and
\* nothing of the previous file; and a run whose invocations returned what
\* the previous run's returned, on the same date, writes the catalog the
\* previous run wrote.
C17_NoCrossRunState ==
    /\ pc \in {"fetch", "sleep", "dedup", "open", "dump"} =>
         all_resources = Returned
    /\ \A c \in ProducedCatalogs :
         /\ \A k \in 1..Len(c.resources) :
              \E i \in 1..Len(Returned) : c.resources[k] = Returned[i]
         /\ c.total <= Len(Returned)
    /\ pc = "Completed" => file = CatalogFile(output[1])
    /\ (/\ pc = "Completed"
        /\ runs >= 2
        /\ prev_returned = Returned
        /\ prior.catalog[1].generated = output[1].generated) => file = prior

\* A scheduled run completed over the catalog of the first run, which had
\* got an entry from Microsoft Learn that this run did not get.
C17_Witness ==
    /\ pc = "Completed"
    /\ runs = 2
    /\ proc = "job"
    /\ prior.kind = "catalog"
    /\ \E k \in 1..Len(prior.catalog[1].resources) :
         /\ prior.catalog[1].resources[k].platform = "Microsoft Learn"
         /\ \A i \in 1..Len(file.catalog[1].resources) :
              file.catalog[1].resources[i].url # prior.catalog[1].resources[k].url

\* raw_description[:200] if raw_description else "No description available."
FallbackText(raw) ==
    IF raw = "" THEN PLACEHOLDER
    ELSE IF Len(raw) <= FallbackChars THEN raw
    ELSE SubSeq(raw, 1, FallbackChars)

\* The raw descriptions the adapters can hand to clean_description.
RawDescriptions ==
    {YOUTUBE_CURATED(c)[i].description :
       c \in {"Web Development"}, i \in 1..Len(YOUTUBE_CURATED("Web Development"))}
      \cup {MITOCW_CURATED("Web Development")[1].description,
            MITOCW_CURATED("UX Design")[1].description}
      \cup {YtA.description, YtB.description, YtCur.description}
      \cup {MsWeb.summary, MsUx.summary, MsExpert.summary}

\* C18: with the video-platform key, the text-generation key or both empty,
\* no adapter invocation raises and the run fails only in the write of the
\* file; without the video-platform key every fetch_youtube invocation
\* returns exactly the curated entries of its category, in table order;
\* without the text-generation key every description is the fallback text
\* of a raw description, and that of a curated entry is the fallback of
\* that entry's description.
C18_MissingSecretsDegrade ==
    /\ (CONFIG.youtube_api_key = "" \/ CONFIG.anthropic_api_key = "") =>
         /\ \A k \in 1..Len(calls) : ~calls[k].raised
         /\ pc = "Failed" => Len(calls) = AllCalls /\ Len(output) = 1
         /\ pc = "Completed" =>
              /\ file.kind = "catalog"
              /\ file.catalog[1].total = Len(file.catalog[1].resources)
    /\ CONFIG.youtube_api_key = "" =>
         \A k \in 1..Len(calls) :
           calls[k].fetcher = "fetch_youtube" =>
             LET cur == YOUTUBE_CURATED(calls[k].category) IN
               /\ calls[k].live_failed
               /\ Len(calls[k].results) = Len(cur)
               /\ \A i \in 1..Len(cur) :
                    /\ calls[k].results[i].url = cur[i].url
                    /\ calls[k].results[i].title = cur[i].title
                    /\ CONFIG.anthropic_api_key = "" =>
                         calls[k].results[i].description
                           = FallbackText(cur[i].description)
    /\ CONFIG.anthropic_api_key = "" =>
         \A i \in 1..Len(Returned) :
           \E raw \in RawDescriptions :
             Returned[i].description = FallbackText(raw)

\* With both keys empty the run wrote a catalog that holds the curated
\* playlists, an entry of Microsoft Learn and only fallback descriptions.
C18_Witness ==
    /\ CONFIG = [youtube_api_key |-> "", anthropic_api_key |-> ""]
    /\ pc = "Completed"
    /\ \E i, j \in 1..Len(file.catalog[1].resources) :
         /\ file.catalog[1].resources[i].url = YOUTUBE_CURATED("Web Development")[1].url
         /\ file.catalog[1].resources[i].description
              = YOUTUBE_CURATED("Web Development")[1].description
         /\ file.catalog[1].resources[j].platform = "Microsoft Learn"

\* C19: every Resource of a produced catalog has one of the four levels.
C19_LevelInEnum ==
    \A c \in ProducedCatalogs :
      \A i \in 1..Len(c.resources) :
        c.resources[i].level \in {"Beginner", "Intermediate", "Advanced", "All Levels"}

\* C20: the k-th adapter invocation of a run is that of the pair number k
\* in category-major order, whatever the earlier invocations returned or
\* however their live part failed; invocations are made one per step, the
\* run goes on to the dedup pass only when every pair has been invoked, and
\* none is invoked again.
C20_EachPairOnceInOrder ==
    /\ [](/\ Len(calls) <= AllCalls
          /\ \A k \in 1..Len(calls) :
               /\ calls[k].category = CATEGORIES[((k - 1) \div Len(FETCHERS)) + 1]
               /\ calls[k].fetcher = FETCHERS[((k - 1) % Len(FETCHERS)) + 1]
          /\ pc \in {"dedup", "open", "dump", "Completed", "Failed"} =>
               Len(calls) = AllCalls)
    /\ [][calls' # calls =>
            \/ pc = "Idle" /\ calls' = <<>>
            \/ /\ pc = "fetch"
               /\ Len(calls') = Len(calls) + 1
               /\ SubSeq(calls', 1, Len(calls)) = calls]_vars

\* All six pairs were invoked and the catalog written although the live
\* part of the first and of the third invocation had failed.
C20_Witness ==
    /\ pc = "Completed"
    /\ Len(calls) = AllCalls
    /\ calls[1].live_failed
    /\ calls[3].live_failed
    /\ calls[AllCalls].results # <<>>

\* C21: every adapter invocation is followed by the sleep, whatever it
\* returned and whether or not its live part failed, and the run reaches
\* the next invocation only out of a finished sleep (the first one out of
\* the start of the run): after n sleeps the run is at pair n + 1.
C21_PoliteDelay ==
    /\ [](pc = "fetch" => Len(calls) = (ci - 1) * Len(FETCHERS) + (fi - 1))
    /\ [][/\ Len(calls') = Len(calls) + 1 => pc = "fetch" /\ pc' = "sleep"
          /\ (pc' = "fetch" /\ (pc # "fetch" \/ calls' # calls)) =>
                \/ pc = "Idle" /\ calls' = <<>>
                \/ pc = "sleep" /\ calls' = calls
          /\ (pc = "sleep" /\ pc' # "sleep") =>
                /\ pc' \in {"fetch", "dedup"}
                /\ <<ci', fi'>> # <<ci, fi>> \/ pc' = "dedup"]_vars

\* The run is about to make an invocation after the sleep that followed an
\* invocation whose live part failed and which returned the empty list.
C21_Witness ==
    /\ pc = "fetch"
    /\ Len(calls) >= 1
    /\ calls[Len(calls)].live_failed
    /\ calls[Len(calls)].results = <<>>

\* C22: a run is started only while no run is in progress, and only by
\* __main__ or by run_pending() out of the idle loop; a trigger that fires
\* while a run executes leaves that run, its accumulator and the file as
\* they are, and no run beyond one per firing and the immediate one is
\* ever started.
C22_AtMostOneRunning ==
    /\ [](/\ pc \in {"fetch", "sleep", "dedup", "open", "dump"} =>
               proc \in {"immediate", "job"}
          /\ runs <= ticks + 1)
    /\ [][/\ runs' # runs =>
                /\ runs' = runs + 1
                /\ pc = "Idle" /\ pc' = "fetch"
          /\ (proc' = "job" /\ proc # "job") => proc = "loop" /\ pc = "Idle"
          /\ (ticks' # ticks /\ proc = "job") =>
                UNCHANGED <<pc, ci, fi, all_resources, unique, output, file,
                            calls, runs, proc>>]_vars

\* The trigger fired again while the scheduled run it had started was still
\* fetching, and that run is the second and only run in progress.
C22_Witness ==
    /\ schedule_flag
    /\ proc = "job"
    /\ pc \in {"fetch", "sleep"}
    /\ Len(calls) >= 1
    /\ runs = 2
    /\ ticks = 2

\* C23: the list fetch_youtube returns is the live results followed by the
\* curated entries of the category whose url is not among the urls of the
\* live results, in table order, and by nothing else.
C23_LocalAdapterDedup ==
    (probe.fn = "fetch_youtube" /\ probe.done) =>
      LET live  == YouTubeLive(probe.resp, 0, probe.category, today).results
          extra == SelectSeq(YOUTUBE_CURATED(probe.category),
                             LAMBDA e : e.url \notin Urls(live))
          res   == probe.out.results
      IN /\ ~probe.out.raised
         /\ Len(res) = Len(live) + Len(extra)
         /\ SubSeq(res, 1, Len(live)) = live
         /\ \A i \in 1..Len(extra) :
              /\ res[Len(live) + i].url = extra[i].url
              /\ res[Len(live) + i].title = extra[i].title

\* The live query produced the first curated playlist and another one: the
\* call returned the two live results and the second curated playlist.
C23_Witness ==
    /\ probe.fn = "fetch_youtube"
    /\ probe.done
    /\ probe.resp = YtOk(<<YtCur, YtA>>)
    /\ Len(probe.out.results) = 3
    /\ probe.out.results[1].title = YtCur.title
    /\ probe.out.results[3].url = YOUTUBE_CURATED("Web Development")[2].url

\* C24: of a response fetch_microsoft_learn processed to its end, an entry
\* is accepted exactly if the category has no terms or one of its terms
\* occurs, letter case ignored, in the title and summary joined by a space.
C24_FilterIgnoresCase ==
    (probe.fn = "fetch_microsoft_learn" /\ probe.done /\ ~probe.out.live_failed) =>
      LET items == MsItems(probe.resp)
          terms == MS_RELEVANCE_KEYWORDS(probe.category)
      IN \A i \in 1..Len(items) :
           (\E k \in 1..Len(probe.out.results) :
              probe.out.results[k].title = items[i].title)
             <=> (\/ terms = <<>>
                  \/ \E t \in 1..Len(terms) :
                       Contains(Lower(items[i].title \o " " \o items[i].summary),
                                Lower(terms[t])))

C26_ExactUrlEquality ==
    pc \in {"open", "probe"} =>
      /\ Urls(unique) = Urls(all_resources)
      /\ Len(unique) = Cardinality(Urls(all_resources))
      /\ \A i \in 1..Len(all_resources) :
           (\A j \in 1..(i - 1) : all_resources[j].url # all_resources[i].url)
             => \E k \in 1..Len(unique) : unique[k] = all_resources[i]

\* The pass kept three Resources whose urls differ in letter case and in a
\* trailing slash only.
C26_Witness ==
    /\ pc = "open"
    /\ Len(all_resources) = 3
    /\ Urls(unique) = {"https://example.com/c1", "https://example.com/C1",
                       "https://example.com/c1/"}

\* The place of a category in CATEGORIES.
CategoryIndex(category) == CHOOSE i \in 1..Len(CATEGORIES) : CATEGORIES[i] = category

\* C27: a url the invocations returned under one or several categories is
\* in a produced catalog exactly once, with the category that comes first
\* in CATEGORIES among those it was returned under.
C27_FirstCategoryWins ==
    \A c \in ProducedCatalogs :
      \A u \in Urls(Returned) :
        LET under == {CategoryIndex(Returned[i].category) :
                        i \in {j \in 1..Len(Returned) : Returned[j].url = u}}
            kept  == {k \in 1..Len(c.resources) : c.resources[k].url = u}
        IN /\ Cardinality(kept) = 1
           /\ \A k \in kept :
                \A i \in under : CategoryIndex(c.resources[k].category) <= i

\* The written catalog holds the MIT OpenCourseWare course, returned under
\* both categories, under "Web Development" only, and fewer "UX Design"
\* Resources than the adapters returned for "UX Design".
C27_Witness ==
    /\ pc = "Completed"
    /\ \E k \in 1..Len(file.catalog[1].resources) :
         /\ file.catalog[1].resources[k].url = MITOCW_CURATED("UX Design")[1].url
         /\ file.catalog[1].resources[k].category = "Web Development"
    /\ Cardinality({k \in 1..Len(file.catalog[1].resources) :
                      file.catalog[1].resources[k].category = "UX Design"})
         < Cardinality({i \in 1..Len(Returned) : Returned[i].category = "UX Design"})

\* The table a static curated adapter reads for the category.
CuratedTable(fn, category) ==
    IF fn = "fetch_aws" THEN AWS_CURATED(category) ELSE STANFORD_CURATED(category)

\* C28: a static curated adapter returns one Resource per entry of its
\* table, with the level of the entry if it has one and "All Levels" if it
\* has none, and with free true.
C28_CuratedLevelOverride ==
    (probe.fn \in {"fetch_aws", "fetch_stanford"} /\ probe.done) =>
      LET table == CuratedTable(probe.fn, probe.category)
          res   == probe.out.results
      IN /\ Len(res) = Len(table)
         /\ \A i \in 1..Len(table) :
              /\ res[i].url = table[i].url
              /\ res[i].free = TRUE
              /\ res[i].level = LevelOf(table[i])

\* C29: no call of fetch_youtube or fetch_microsoft_learn returns more than
\* max_results_per_source Resources.
C29_PerSourceCap ==
    (probe.fn \in {"fetch_youtube", "fetch_microsoft_learn"} /\ probe.done) =>
      Len(probe.out.results) <= max_results_per_source

\* The items of a live response the loop body fails on: a search item
\* without snippet or id, or with a playlist id and no title; a catalog entry
\* that is no JSON object.
YtFails(item) ==
    ~item.has_snippet \/ ~item.has_id \/ (item.playlistId # "" /\ ~item.has_title)

MsFails(item) == ~item.is_dict

\* The items in front of the first one the loop body fails on; bad is the
\* set of the positions of the items it fails on.
BeforeFailure(items, bad) ==
    LET first == IF bad = {} THEN Len(items) + 1
                 ELSE CHOOSE i \in bad : \A j \in bad : i <= j
    IN SubSeq(items, 1, first - 1)

YtBad(items) == {i \in 1..Len(items) : YtFails(items[i])}

MsBad(items) == {i \in 1..Len(items) : MsFails(items[i])}

IsPrefix(s, t) == Len(s) <= Len(t) /\ SubSeq(t, 1, Len(s)) = s

\* C30: when the loop over the live response fails, the adapter returns the
\* Resources accepted before the failure, in order and unchanged, and they
\* are a prefix of what the response without its failing items yields;
\* fetch_youtube then appends the curated playlists whose urls are not among
\* them; items without playlist id in front of the failure are passed over.
C30_PartialResultsSurvive ==
    (probe.fn \in {"fetch_youtube", "fetch_microsoft_learn"} /\ probe.done
       /\ probe.resp.status = "ok" /\ probe.out.live_failed) =>
      LET res == probe.out.results IN
      IF probe.fn = "fetch_youtube"
      THEN LET before   == BeforeFailure(probe.resp.items, YtBad(probe.resp.items))
               accepted == YouTubeLive(YtOk(before), 0, probe.category, today).results
               sound    == SelectSeq(probe.resp.items, LAMBDA it : ~YtFails(it))
               free     == YouTubeLive(YtOk(sound), 0, probe.category, today).results
               withid   == SelectSeq(before, LAMBDA it : it.playlistId # "")
               extra    == SelectSeq(YOUTUBE_CURATED(probe.category),
                                     LAMBDA e : e.url \notin Urls(accepted))
           IN /\ ~probe.out.raised
              /\ Len(before) < Len(probe.resp.items)
              /\ Len(accepted) = Len(withid)
              /\ \A i \in 1..Len(withid) :
                   accepted[i].url =
                     "https://www.youtube.com/playlist?list=" \o withid[i].playlistId
              /\ IsPrefix(accepted, free)
              /\ Len(res) = Len(accepted) + Len(extra)
              /\ SubSeq(res, 1, Len(accepted)) = accepted
              /\ \A i \in 1..Len(extra) : res[Len(accepted) + i].url = extra[i].url
      ELSE LET items    == Prefix(MsItems(probe.resp), max_results_per_source * 3)
               before   == BeforeFailure(items, MsBad(items))
               accepted == MicrosoftLoop(before, <<>>, 0, probe.category, today).results
               sound    == SelectSeq(items, LAMBDA it : ~MsFails(it))
               free     == MicrosoftLoop(sound, <<>>, 0, probe.category, today).results
           IN /\ ~probe.out.raised
              /\ Len(before) < Len(items)
              /\ IsPrefix(accepted, free)
              /\ res = accepted

\* The search answered an item without playlist id, a playlist, a malformed
\* item and a curated playlist: the call returned the one live Resource
\* followed by both curated playlists of the category.
C30_Witness ==
    /\ probe.fn = "fetch_youtube"
    /\ probe.done
    /\ probe.category = "Web Development"
    /\ probe.resp = YtOk(YtMixedPage)
    /\ probe.out.live_failed
    /\ Len(probe.out.results) = 1 + Len(YOUTUBE_CURATED("Web Development"))
    /\ probe.out.results[1].title = YtA.title
    /\ probe.out.results[2].title = YOUTUBE_CURATED("Web Development")[1].title

====
